---- MODULE Spec2Model ----
(***************************************************************************)
(* Travel day calculator: the computation pass apply_user_logic of         *)
(* travel_day_calc_v1_1.py (period assignment, filtering, grouping into    *)
(* stay periods, per-period derivation, summary / export / calendar        *)
(* records), as a state machine over the pass's inputs and outputs.        *)
(*                                                                         *)
(* Dates are day ordinals (a pandas Timestamp at midnight); day 0 is       *)
(* Friday 29.12.2023, so that the modelled window straddles a year end.    *)
(***************************************************************************)
EXTENDS Integers, Sequences, FiniteSets, TLC

VARIABLES
    df_cast_dates,         \* the schedule table: sequence of (Cast Member, Shooting Date)
    cast_member_settings,  \* name -> [include, home_location]
    shooting_periods,      \* list of period definitions (Name, Location, Start Date, End Date)
    max_gap,               \* Maximum Gap Days
    weekend_policy,        \* Send Cast Home on Weekends
    arrival_option,        \* arrival policy
    departure_option,      \* departure policy
    df_filtered,           \* local of the pass: the annotated, included rows
    stay_periods,          \* locals of the pass: one entry per iteration of the period loop
    df_summary,            \* returned summary rows
    export_data,           \* returned export records
    calendar_data,         \* returned calendar events
    disk,                  \* the files the dialogs can pick: [excel, projects]
    current_project,       \* project name, None before the first project
    config,                \* the project configuration (its home_locations; the keys
                           \* cast_member_settings and shooting_periods hold the two
                           \* objects of those names above)
    default_config,        \* the default configuration (home_locations)
    excel_file,            \* path of the schedule file of the project
    dialog,                \* the Manage Home Locations dialog while it is open:
                           \* its home_locations attribute and its list widget
    workbook,              \* the workbook last saved by an export
    pc                     \* outcome of the last operation: "ready", "returned",
                           \* "raised", "loaded", "annotated", "failed", and for
                           \* the dialog and the exports "managing", "managed",
                           \* "rejected", "cancelled", "exported" or "warned"

vars == <<df_cast_dates, cast_member_settings, shooting_periods, max_gap,
          weekend_policy, arrival_option, departure_option, df_filtered,
          stay_periods, df_summary, export_data, calendar_data,
          disk, current_project, config, default_config, excel_file,
          dialog, workbook, pc>>

(***************************************************************************)
(* Bounds of the model.                                                    *)
(***************************************************************************)
MaxDay == 5
MaxGapBound == 3

(***************************************************************************)
(* Values.                                                                 *)
(***************************************************************************)
None == "None"
CastMembers == {"A", "B"}
Days == 1..MaxDay

\* Python's str ordering on the strings of the model (ASCII, upper case first).
StrOrder == <<"A", "Away", "B", "LOCAL", "Local", "P1", "P2", "local">>
StrRank(s) == CHOOSE i \in 1..Len(StrOrder) : StrOrder[i] = s

\* str.lower()
lower(s) ==
    CASE s = "Local" -> "local"
      [] s = "LOCAL" -> "local"
      [] s = "local" -> "local"
      [] s = "Away"  -> "away"
      [] OTHER       -> s

\* Timestamp.strftime('%d.%m.%Y'): the (day, month, year) fields of an ordinal.
strftime(n) == IF n <= 2 THEN <<29 + n, 12, 2023>> ELSE <<n - 2, 1, 2024>>

\* Values of a period's 'Start Date' / 'End Date': a Timestamp, NaT, or a str.
Timestamp(n) == [type |-> "Timestamp", day |-> n, text |-> <<>>]
NaT == [type |-> "NaT", day |-> 0, text |-> <<>>]
Str(t) == [type |-> "str", day |-> 0, text |-> t]
\* the text written by CustomEncoder: '%Y-%m-%dT%H:%M:%S'
IsoText(n) == LET f == strftime(n) IN <<f[3], f[2], f[1]>>
Unparsable == <<0, 0, 0>>

\* pd.to_datetime on a str: '' gives NaT, an ISO text gives its Timestamp,
\* anything else raises.
to_datetime(t) ==
    IF t = <<>> THEN NaT
    ELSE IF Len(t) = 3 /\ t[1] = 2023 /\ t[2] = 12 /\ t[3] \in 1..31
         THEN Timestamp(t[3] - 29)
    ELSE IF Len(t) = 3 /\ t[1] = 2024 /\ t[2] = 1 /\ t[3] \in 1..31
         THEN Timestamp(t[3] + 2)
    ELSE [type |-> "raise", day |-> 0, text |-> t]

(***************************************************************************)
(* Sequence helpers.                                                       *)
(***************************************************************************)
Range(s) == {s[i] : i \in 1..Len(s)}

RECURSIVE Concat(_)
Concat(ss) == IF ss = <<>> THEN <<>> ELSE Head(ss) \o Concat(Tail(ss))

\* sort_values: stable sort of a sequence by an integer key (key is a function).
RECURSIVE InsertByKey(_, _, _)
InsertByKey(s, x, key) ==
    IF s = <<>> THEN <<x>>
    ELSE IF key[x] < key[Head(s)] THEN <<x>> \o s
    ELSE <<Head(s)>> \o InsertByKey(Tail(s), x, key)

RECURSIVE SortByKey(_, _)
SortByKey(s, key) ==
    IF s = <<>> THEN <<>>
    ELSE InsertByKey(SortByKey(SubSeq(s, 1, Len(s) - 1), key), s[Len(s)], key)

\* a set of integers as an ascending sequence
RECURSIVE SetToSeq(_)
SetToSeq(S) ==
    IF S = {} THEN <<>>
    ELSE LET m == CHOOSE x \in S : \A y \in S : x <= y
         IN <<m>> \o SetToSeq(S \ {m})

\* pd.date_range(start, end): every day from start to end, empty when start > end
date_range(start, end) == [i \in 1..(IF end >= start THEN end - start + 1 ELSE 0) |-> start + i - 1]

SeqMin(s) == CHOOSE x \in Range(s) : \A y \in Range(s) : x <= y
SeqMax(s) == CHOOSE x \in Range(s) : \A y \in Range(s) : x >= y

(***************************************************************************)
(* Period assignment: get_period_info.                                     *)
(***************************************************************************)
\* One date field of a definition: the value left in the dict and whether the
\* loop continues with the next definition (r is what pd.to_datetime gave).
Converted(v, r) ==
    IF r.type = "raise" THEN [value |-> v, skip |-> TRUE]
    ELSE IF r.type = "NaT" THEN [value |-> NaT, skip |-> TRUE]
    ELSE [value |-> r, skip |-> FALSE]

\* faulty variant: a date converted in this call counts only from the next call
ConvertFieldLate(v) ==
    IF v.type # "str" THEN [value |-> v, skip |-> FALSE]
    ELSE [value |-> Converted(v, to_datetime(v.text)).value, skip |-> TRUE]

ConvertField(v) ==
    IF v.type # "str" THEN [value |-> v, skip |-> FALSE]
    ELSE Converted(v, to_datetime(v.text))

\* faulty variant: the end date excluded from the range
InRangeExclusive(period, date) ==
    /\ period.StartDate.type = "Timestamp"
    /\ period.EndDate.type = "Timestamp"
    /\ period.StartDate.day <= date
    /\ date < period.EndDate.day

\* period['Start Date'] <= date <= period['End Date'] (a comparison with NaT is False)
InRange(period, date) ==
    /\ period.StartDate.type = "Timestamp"
    /\ period.EndDate.type = "Timestamp"
    /\ period.StartDate.day <= date
    /\ date <= period.EndDate.day

\* One iteration of the loop over shooting_periods: 'End Date', then the test.
CheckEnd(period, e, date) ==
    [period |-> [period EXCEPT !.EndDate = e.value],
     hit |-> ~e.skip /\ InRange([period EXCEPT !.EndDate = e.value], date)]

\* 'Start Date' first; a failed conversion leaves 'End Date' untouched
CheckStart(period, s, date) ==
    IF s.skip THEN [period |-> [period EXCEPT !.StartDate = s.value], hit |-> FALSE]
    ELSE CheckEnd([period EXCEPT !.StartDate = s.value], ConvertField(period.EndDate), date)

CheckPeriod(period, date) == CheckStart(period, ConvertField(period.StartDate), date)

RECURSIVE ScanPeriods(_, _, _)
ScanStep(periods, i, date, c) ==
    IF c.hit
    THEN [periods |-> [periods EXCEPT ![i] = c.period],
          info |-> <<c.period.Name, c.period.Location>>]
    ELSE ScanPeriods([periods EXCEPT ![i] = c.period], i + 1, date)

ScanPeriods(periods, i, date) ==
    IF i > Len(periods) THEN [periods |-> periods, info |-> <<None, None>>]
    ELSE ScanStep(periods, i, date, CheckPeriod(periods[i], date))

get_period_info(periods, date) == ScanPeriods(periods, 1, date)

\* df_filtered['Shooting Date'].apply(get_period_info): the rows in order, the
\* definitions carrying the conversions of the earlier rows.
RECURSIVE AssignPeriods(_, _, _, _)
AssignStep(rows, i, acc, r) ==
    AssignPeriods(rows, i + 1, r.periods,
        Append(acc, [CastMember |-> rows[i].CastMember,
                     ShootingDate |-> rows[i].ShootingDate,
                     PeriodName |-> r.info[1],
                     ShootingLocation |-> r.info[2]]))

AssignPeriods(rows, i, periods, acc) ==
    IF i > Len(rows) THEN [periods |-> periods, rows |-> acc]
    ELSE AssignStep(rows, i, acc, get_period_info(periods, rows[i].ShootingDate))

(***************************************************************************)
(* Filtering and the travel decision.                                      *)
(***************************************************************************)
RowKey(rows) == [r \in Range(rows) |-> StrRank(r.CastMember) * 1000 + r.ShootingDate]
SortRows(rows) == SortByKey(rows, RowKey(rows))

\* lines 265-266: rows of the members that have settings, sorted
FilterBySettings(df, settings) ==
    SortRows(SelectSeq(df, LAMBDA r : r.CastMember \in DOMAIN settings))

\* faulty variant: the locations compared case-sensitively
requires_travel_exact(row) ==
    IF row.ShootingLocation = None THEN FALSE
    ELSE IF row.HomeLocation = row.ShootingLocation THEN FALSE
    ELSE TRUE

\* lines 311-317
requires_travel(row) ==
    IF row.ShootingLocation = None THEN FALSE
    ELSE IF lower(row.HomeLocation) = lower(row.ShootingLocation) THEN FALSE
    ELSE TRUE

\* lines 300-305: the columns Home Location and Include
WithSettings(rows, settings) ==
    [i \in 1..Len(rows) |->
        [CastMember |-> rows[i].CastMember,
         ShootingDate |-> rows[i].ShootingDate,
         PeriodName |-> rows[i].PeriodName,
         ShootingLocation |-> rows[i].ShootingLocation,
         HomeLocation |-> settings[rows[i].CastMember].home_location,
         Include |-> settings[rows[i].CastMember].include]]

\* line 319: the column Requires Travel
WithRequiresTravel(rows) ==
    [i \in 1..Len(rows) |->
        [CastMember |-> rows[i].CastMember,
         ShootingDate |-> rows[i].ShootingDate,
         PeriodName |-> rows[i].PeriodName,
         ShootingLocation |-> rows[i].ShootingLocation,
         HomeLocation |-> rows[i].HomeLocation,
         Include |-> rows[i].Include,
         RequiresTravel |-> requires_travel(rows[i])]]

\* faulty variant: the Include filter left out
AnnotateRowsAll(rows, settings) == WithRequiresTravel(WithSettings(rows, settings))

\* lines 300-319: Home Location, Include, the Include filter, Requires Travel
AnnotateRows(rows, settings) ==
    WithRequiresTravel(SelectSeq(WithSettings(rows, settings), LAMBDA r : r.Include))

(***************************************************************************)
(* Grouping into stay periods (lines 326-339).                             *)
(***************************************************************************)
\* groupby(grouping_columns): the keys in sorted order; rows whose Period Name
\* is null belong to no group (groupby drops null keys).
GroupKeys(rows) ==
    {<<r.CastMember, r.HomeLocation, r.PeriodName, r.RequiresTravel>> :
        r \in {x \in Range(rows) : x.PeriodName # None}}

KeyRank(k) ==
    ((StrRank(k[1]) * 100 + StrRank(k[2])) * 100 + StrRank(k[3])) * 2
        + (IF k[4] THEN 1 ELSE 0)

KeysByRank(ks, ranks) == [i \in 1..Len(ranks) |-> CHOOSE k \in ks : KeyRank(k) = ranks[i]]
KeysInOrder(ks) == KeysByRank(ks, SetToSeq({KeyRank(k) : k \in ks}))
SortedGroupKeys(rows) == KeysInOrder(GroupKeys(rows))

\* the 'Shooting Date' column of one group, sorted
DatesColumn(g) == [i \in 1..Len(g) |-> g[i].ShootingDate]
SortDates(dates) == SortByKey(dates, [d \in Range(dates) |-> d])
GroupDates(rows, key) ==
    SortDates(DatesColumn(SelectSeq(rows, LAMBDA r :
        <<r.CastMember, r.HomeLocation, r.PeriodName, r.RequiresTravel>> = key)))

\* faulty variant: the difference in days, the later shooting day counted
GapInclusive(dates) == [i \in 1..Len(dates) |-> IF i = 1 THEN 0 ELSE dates[i] - dates[i - 1]]

\* group['Gap']: diff().dt.days - 1, the first row's NaN filled with 0
Gap(dates) == [i \in 1..Len(dates) |-> IF i = 1 THEN 0 ELSE dates[i] - dates[i - 1] - 1]

\* faulty variant: a new period only when the gap exceeds max_gap
NewPeriodStrict(gap, maxGap) ==
    [i \in 1..Len(gap) |-> Cardinality({j \in 1..i : gap[j] > maxGap})]

\* group['New Period']: (Gap >= max_gap).cumsum()
NewPeriod(gap, maxGap) ==
    [i \in 1..Len(gap) |-> Cardinality({j \in 1..i : gap[j] >= maxGap})]

(***************************************************************************)
(* Per-period derivation (lines 344-519).                                  *)
(***************************************************************************)
\* faulty variant: the arrival policy ignored
ArrivalDateSameDay(dates, arrivalOption) == SeqMin(dates)

ArrivalDate(dates, arrivalOption) ==
    CASE arrivalOption = "Day Before Shooting" -> SeqMin(dates) - 1
      [] arrivalOption = "Same Day as Shooting" -> SeqMin(dates)

DepartureDate(dates, departureOption) ==
    CASE departureOption = "Day After Shooting" -> SeqMax(dates) + 1
      [] departureOption = "Same Day as Shooting" -> SeqMax(dates)

\* the set travel_dates
TravelDates(arrival, departure, departureOption) ==
    {arrival} \cup
        (IF departureOption = "Day After Shooting" THEN {departure}
         ELSE IF departure # arrival THEN {departure} ELSE {})

\* faulty variant: arrival and departure always counted as two travel days
PeriodTravelBoth(arrival, departure, departureOption) == 2

\* period_travel = len(travel_dates)
PeriodTravel(arrival, departure, departureOption) ==
    Cardinality(TravelDates(arrival, departure, departureOption))

\* faulty variant: days of the stay counted instead of nights
PeriodAccommodationDays(arrival, departure) == departure - arrival + 1

\* period_accommodation = (departure_date - arrival_date).days
PeriodAccommodation(arrival, departure) == departure - arrival

\* faulty variant: the range includes the arrival and departure dates
TravelGapDatesInclusive(dates, arrival, departure) ==
    SelectSeq(date_range(arrival, departure), LAMBDA d : d \notin Range(dates))

\* gap_dates of a period that requires travel
TravelGapDates(dates, arrival, departure) ==
    SelectSeq(date_range(arrival + 1, departure - 1), LAMBDA d : d \notin Range(dates))

\* faulty variant: the span widened by a day on both sides
HomeGapDatesWidened(dates) ==
    SelectSeq(date_range(SeqMin(dates) - 1, SeqMax(dates) + 1), LAMBDA d : d \notin Range(dates))

\* gap_dates of a period that does not require travel
HomeGapDates(dates) ==
    SelectSeq(date_range(SeqMin(dates), SeqMax(dates)), LAMBDA d : d \notin Range(dates))

Event(name, title, place, date, description, location) ==
    [CastMember |-> name, Title |-> <<title, place>>,
     Start |-> strftime(date), End |-> strftime(date),
     Description |-> description, Location |-> location, AllDay |-> "TRUE"]

ShootingEvents(name, periodName, dates) ==
    [i \in 1..Len(dates) |->
        Event(name, "Shooting in ", periodName, dates[i],
              <<"Shooting day in ", periodName>>, periodName)]

GapEvents(name, periodName, gapDates) ==
    [i \in 1..Len(gapDates) |->
        Event(name, "Gap Day in ", periodName, gapDates[i],
              <<"Gap day in ", periodName>>, periodName)]

\* export_data.append(...) (lines 404-421)
ExportRecord(key, periodNumber, dates, arrival, departure, travel, nights, gapDates) ==
    [CastMember |-> key[1],
     HomeLocation |-> key[2],
     PeriodName |-> key[3],
     PeriodNumber |-> periodNumber,
     PeriodDates |-> <<strftime(arrival), strftime(departure)>>,
     PeriodStartDate |-> arrival,
     PeriodEndDate |-> departure,
     PeriodTravelDays |-> travel,
     PeriodAccommodationNights |-> nights,
     NumberOfShootingDays |-> Len(dates),
     NumberOfGapDays |-> Len(gapDates),
     NumberOfTravelDays |-> travel,
     ShootingDates |-> dates,
     X |-> 1,
     FourX |-> 1,
     RequiresTravel |-> key[4]]

\* faulty variant: the gap days listed before the shooting days
TravelEventsGapsFirst(key, dates, arrival, departure, gapDates) ==
    <<Event(key[1], "Travel to ", key[3], arrival,
            <<"Travel from ", key[2], " to ", key[3]>>, key[3])>>
    \o GapEvents(key[1], key[3], gapDates)
    \o ShootingEvents(key[1], key[3], dates)
    \o <<Event(key[1], "Travel back to ", key[2], departure,
               <<"Travel from ", key[3], " to ", key[2]>>, key[2])>>

\* calendar_data.append(...) of a period that requires travel (lines 423-468)
TravelEvents(key, dates, arrival, departure, gapDates) ==
    <<Event(key[1], "Travel to ", key[3], arrival,
            <<"Travel from ", key[2], " to ", key[3]>>, key[3])>>
    \o ShootingEvents(key[1], key[3], dates)
    \o GapEvents(key[1], key[3], gapDates)
    \o <<Event(key[1], "Travel back to ", key[2], departure,
               <<"Travel from ", key[3], " to ", key[2]>>, key[2])>>

\* the locals of one iteration of the period loop, travel required
TravelEntry(key, periodNumber, dates, arrival, departure, travel, nights, gapDates) ==
    [CastMember |-> key[1], HomeLocation |-> key[2], PeriodName |-> key[3],
     RequiresTravel |-> TRUE, PeriodNumber |-> periodNumber,
     ShootingDates |-> dates,
     arrival_date |-> arrival, departure_date |-> departure,
     period_travel |-> travel, period_accommodation |-> nights,
     gap_dates |-> gapDates,
     export |-> <<ExportRecord(key, periodNumber, dates, arrival, departure,
                               travel, nights, gapDates)>>,
     events |-> TravelEvents(key, dates, arrival, departure, gapDates)]

\* faulty variant: every day of the stay without shooting counts as a gap day
TravelDerivedWholeStay(key, periodNumber, dates, arrival, departure, departureOption) ==
    TravelEntry(key, periodNumber, dates, arrival, departure,
                PeriodTravel(arrival, departure, departureOption),
                PeriodAccommodation(arrival, departure),
                TravelGapDates(dates, arrival - 1, departure + 1))

\* lines 369-383, given the arrival and departure dates
TravelDerived(key, periodNumber, dates, arrival, departure, departureOption) ==
    TravelEntry(key, periodNumber, dates, arrival, departure,
                PeriodTravel(arrival, departure, departureOption),
                PeriodAccommodation(arrival, departure),
                TravelGapDates(dates, arrival, departure))

\* one iteration of the period loop, travel required (lines 347-484)
TravelPeriod(key, periodNumber, dates, arrivalOption, departureOption) ==
    TravelDerived(key, periodNumber, dates, ArrivalDate(dates, arrivalOption),
                  DepartureDate(dates, departureOption), departureOption)

\* the locals of one iteration of the period loop, no travel required
HomeEntry(key, periodNumber, dates, gapDates) ==
    [CastMember |-> key[1], HomeLocation |-> key[2], PeriodName |-> key[3],
     RequiresTravel |-> FALSE, PeriodNumber |-> periodNumber,
     ShootingDates |-> dates,
     gap_dates |-> gapDates,
     export |-> <<>>,
     events |-> ShootingEvents(key[1], key[3], dates) \o GapEvents(key[1], key[3], gapDates)]

\* one iteration of the period loop, no travel required (lines 485-519)
HomePeriod(key, periodNumber, dates) ==
    HomeEntry(key, periodNumber, dates, HomeGapDates(dates))

SelectByIndex(dates, members) == [j \in 1..Len(members) |-> dates[members[j]]]

\* faulty variant: a period also takes the rows of the earlier periods
PeriodGroupCumulative(dates, np, n) ==
    SelectByIndex(dates, SetToSeq({k \in 1..Len(dates) : np[k] <= n}))

\* the rows of one value of 'New Period'
PeriodGroup(dates, np, n) == SelectByIndex(dates, SetToSeq({k \in 1..Len(dates) : np[k] = n}))

PeriodBody(key, periodNumber, dates, arrivalOption, departureOption) ==
    IF key[4]
    THEN TravelPeriod(key, periodNumber, dates, arrivalOption, departureOption)
    ELSE HomePeriod(key, periodNumber, dates)

\* the period loop of one group: group.groupby('New Period'), in number order
PeriodLoop(key, dates, np, numbers, arrivalOption, departureOption) ==
    [i \in 1..Len(numbers) |->
        PeriodBody(key, numbers[i], PeriodGroup(dates, np, numbers[i]),
                   arrivalOption, departureOption)]

PeriodsByNumber(key, dates, np, arrivalOption, departureOption) ==
    PeriodLoop(key, dates, np, SetToSeq(Range(np)), arrivalOption, departureOption)

GroupPeriods(key, dates, maxGap, arrivalOption, departureOption) ==
    PeriodsByNumber(key, dates, NewPeriod(Gap(dates), maxGap), arrivalOption, departureOption)

RECURSIVE SumField(_, _)
SumField(entries, field) ==
    IF entries = <<>> THEN 0
    ELSE (IF Head(entries).RequiresTravel THEN Head(entries)[field] ELSE 0)
            + SumField(Tail(entries), field)

\* faulty variant: the two totals written to each other's column
GroupResultSwapped(key, entries) ==
    [CastMember |-> key[1], HomeLocation |-> key[2],
     TravelDays |-> SumField(entries, "period_accommodation"),
     AccommodationNights |-> SumField(entries, "period_travel"),
     RequiresTravel |-> key[4]]

\* results.append(...) of one group (lines 521-528)
GroupResult(key, entries) ==
    [CastMember |-> key[1], HomeLocation |-> key[2],
     TravelDays |-> SumField(entries, "period_travel"),
     AccommodationNights |-> SumField(entries, "period_accommodation"),
     RequiresTravel |-> key[4]]

(***************************************************************************)
(* The pass.                                                               *)
(***************************************************************************)
\* the pass returns (line 537)
Returns(periods, rows, entries, results) ==
    /\ shooting_periods' = periods
    /\ df_filtered' = rows
    /\ stay_periods' = entries
    /\ df_summary' = results
    /\ export_data' = Concat([i \in 1..Len(entries) |-> entries[i].export])
    /\ calendar_data' = Concat([i \in 1..Len(entries) |-> entries[i].events])
    /\ pc' = "returned"

\* the pass raises: apply_logic reports the error and keeps the earlier results
Raises(periods) ==
    /\ shooting_periods' = periods
    /\ pc' = "raised"
    /\ UNCHANGED <<df_filtered, stay_periods, df_summary, export_data, calendar_data>>

\* lines 521-537: the summary rows next to the periods of every group
PassResults(periods, rows, keys, groups) ==
    Returns(periods, rows, Concat(groups),
            [i \in 1..Len(keys) |-> GroupResult(keys[i], groups[i])])

\* lines 328-519: the loop over the groups
PassGroups(periods, rows, keys) ==
    PassResults(periods, rows, keys,
        [i \in 1..Len(keys) |->
            GroupPeriods(keys[i], GroupDates(rows, keys[i]), max_gap,
                         arrival_option, departure_option)])

\* lines 319-326, the rows annotated
PassRows(periods, rows) ==
    IF rows = <<>>
    THEN \* setting 'Requires Travel' from an empty table fails or not, depending
         \* on the pandas build
         Raises(periods) \/ Returns(periods, <<>>, <<>>, <<>>)
    ELSE PassGroups(periods, rows, SortedGroupKeys(rows))

\* lines 300-319, the periods assigned
PassAssigned(assigned) ==
    PassRows(assigned.periods, AnnotateRows(assigned.rows, cast_member_settings))

\* lines 297-299, the rows of the members with settings
PassFiltered(filtered) ==
    IF filtered = <<>>
    THEN \* the same for the two period columns
         Raises(shooting_periods) \/ Returns(shooting_periods, <<>>, <<>>, <<>>)
    ELSE PassAssigned(AssignPeriods(filtered, 1, shooting_periods, <<>>))

\* apply_logic calling apply_user_logic (lines 1376-1415, 248-537)
apply_user_logic ==
    /\ df_cast_dates # <<>>
    /\ PassFiltered(FilterBySettings(df_cast_dates, cast_member_settings))
    /\ UNCHANGED <<df_cast_dates, cast_member_settings, max_gap, weekend_policy,
                   arrival_option, departure_option>>
    /\ UNCHANGED <<disk, current_project, config, default_config, excel_file>>
    /\ UNCHANGED <<dialog, workbook>>

(***************************************************************************)
(* Schedule loading and gap annotation.                                    *)
(***************************************************************************)
\* df.explode('Cast List'): one row per name of a row's cast list; a row with an
\* empty list gives one row without a cast member
ExplodeRow(row) ==
    IF row.CAST = <<>> THEN <<[CastMember |-> None, ShootingDate |-> row.ShootingDate]>>
    ELSE [i \in 1..Len(row.CAST) |->
            [CastMember |-> row.CAST[i], ShootingDate |-> row.ShootingDate]]
explode(rows) == Concat([i \in 1..Len(rows) |-> ExplodeRow(rows[i])])

\* dropna(subset=['Cast Member'])
dropna(rows) == SelectSeq(rows, LAMBDA r : r.CastMember # None)

\* drop_duplicates(): the first of equal rows is kept
RECURSIVE drop_duplicates(_)
drop_duplicates(rows) ==
    IF rows = <<>> THEN <<>>
    ELSE IF rows[Len(rows)] \in Range(SubSeq(rows, 1, Len(rows) - 1))
         THEN drop_duplicates(SubSeq(rows, 1, Len(rows) - 1))
    ELSE Append(drop_duplicates(SubSeq(rows, 1, Len(rows) - 1)), rows[Len(rows)])

\* faulty variant: the rows left in the order of the file
ProcessRowsUnsorted(rows) == drop_duplicates(dropna(explode(rows)))

\* lines 47-80 of load_and_process_schedule, the file read and its dates parsed
ProcessRows(rows) == SortRows(drop_duplicates(dropna(explode(rows))))

\* load_and_process_schedule: raises when the file cannot be read or a date does
\* not parse
LoadRaises(file) == file.kind # "ok"
load_and_process_schedule(file) == ProcessRows(file.rows)

\* Timestamp.weekday(): Monday = 0; day 0 is a Friday
weekday(n) == (n + 4) % 7

\* faulty variant: only Sundays counted
WeekendDaysSundays(range) == Cardinality({i \in 1..Len(range) : weekday(range[i]) >= 6})

\* sum(gap_range.weekday >= 5)
WeekendDays(range) == Cardinality({i \in 1..Len(range) : weekday(range[i]) >= 5})

\* weekends_in_gap(row), lines 237-246
weekends_in_gap(date, prev, gap) ==
    IF prev = <<>> \/ gap <= 0 THEN 0
    ELSE WeekendDays(date_range(prev[1] + 1, date - 1))

\* faulty variant: shift(1) over the whole table, not per cast member
ShiftedAcrossMembers(df, i) == IF i = 1 THEN <<>> ELSE <<df[i - 1].ShootingDate>>

\* groupby('Cast Member')['Shooting Date'].shift(1): the date of the row before
\* row i among the rows of its cast member, <<>> (NaT) when there is none
Shifted(df, i) ==
    IF \A j \in 1..(i - 1) : df[j].CastMember # df[i].CastMember THEN <<>>
    ELSE <<df[CHOOSE j \in 1..(i - 1) :
                /\ df[j].CastMember = df[i].CastMember
                /\ \A k \in (j + 1)..(i - 1) : df[k].CastMember # df[i].CastMember].ShootingDate>>

\* (Shooting Date - Previous Shooting Date).dt.days - 1, NaN filled with 0
GapDays(date, prev) == IF prev = <<>> THEN 0 ELSE date - prev[1] - 1

GapRow(row, prev, gap) ==
    [CastMember |-> row.CastMember,
     ShootingDate |-> row.ShootingDate,
     PreviousShootingDate |-> prev,
     Gap |-> gap,
     WeekendsInGap |-> weekends_in_gap(row.ShootingDate, prev, gap)]

AnnotateRow(row, prev) == GapRow(row, prev, GapDays(row.ShootingDate, prev))

\* calculate_gaps, lines 218-225
calculate_gaps(df) == [i \in 1..Len(df) |-> AnnotateRow(df[i], Shifted(df, i))]

(***************************************************************************)
(* Inputs of the pass.                                                     *)
(***************************************************************************)
ArrivalOptions == {"Day Before Shooting", "Same Day as Shooting"}
DepartureOptions == {"Same Day as Shooting", "Day After Shooting"}

\* load_and_process_schedule: unique rows sorted by member and date
RecordOfRank(S, rank) ==
    [CastMember |-> (CHOOSE x \in S : StrRank(x[1]) * 1000 + x[2] = rank)[1],
     ShootingDate |-> rank % 1000]
RecordsInOrder(S, ranks) == [i \in 1..Len(ranks) |-> RecordOfRank(S, ranks[i])]
ScheduleOf(S) == RecordsInOrder(S, SetToSeq({StrRank(r[1]) * 1000 + r[2] : r \in S}))

\* A shoots on any set of days, B on these days
BDays == {2, MaxDay - 1}
Schedules ==
    {calculate_gaps(ScheduleOf(({"A"} \X a) \cup ({"B"} \X BDays))) : a \in SUBSET Days}

Setting(inc, home) == [include |-> inc, home_location |-> home]
SettingsMaps ==
    {[n \in {"A", "B"} |-> IF n = "A" THEN Setting(TRUE, "Local") ELSE Setting(FALSE, "Away")],
     [n \in {"A", "B"} |-> IF n = "A" THEN Setting(TRUE, "Away") ELSE Setting(TRUE, "Local")],
     [n \in {"A", "B"} |-> IF n = "A" THEN Setting(FALSE, "Local") ELSE Setting(FALSE, "Away")],
     [n \in {"B"} |-> Setting(TRUE, "Away")],
     [n \in {} |-> Setting(TRUE, "Local")]}

Period(name, location, start, end) ==
    [Name |-> name, Location |-> location, StartDate |-> start, EndDate |-> end]
PeriodDefs ==
    {Period("P1", "Away", Timestamp(1), Timestamp(MaxDay)),
     Period("P2", "local", Timestamp(2), Timestamp(3)),
     Period("P1", "LOCAL", Str(IsoText(1)), Str(IsoText(2))),
     Period("P2", "Away", Str(Unparsable), Timestamp(MaxDay)),
     Period("P2", "Away", Timestamp(1), Str(<<>>))}
\* no definition, one, two different ones in either order, and one list of three
PeriodLists ==
    {<<>>} \cup {<<d>> : d \in PeriodDefs}
    \cup {<<de[1], de[2]>> : de \in {x \in PeriodDefs \X PeriodDefs : x[1] # x[2]}}
    \cup {<<Period("P2", "Away", Timestamp(1), Str(<<>>)),
            Period("P2", "local", Timestamp(2), Timestamp(3)),
            Period("P1", "Away", Timestamp(1), Timestamp(MaxDay))>>}

\* a configuration dict: its 'home_locations' key, when present
Config(locations) == [has_home_locations |-> TRUE, home_locations |-> locations]
EmptyConfig == [has_home_locations |-> FALSE, home_locations |-> <<>>]
\* load_default_config without a default_config.json
DefaultConfig == Config(<<"Local", "Away">>)
\* config.get("home_locations", ["Local", "Away"])
HomeLocationsOf(cfg) ==
    IF cfg.has_home_locations THEN cfg.home_locations ELSE <<"Local", "Away">>

ExcelFile(path, kind, rows) == [path |-> path, kind |-> kind, rows |-> rows]
\* no dialog open; no workbook saved
NoDialog == [open |-> FALSE, home_locations |-> <<>>, list_widget |-> <<>>]
NoWorkbook == [title |-> None, locations |-> {}, rows |-> <<>>, sheets |-> <<>>]
FileRow(cast, date) == [CAST |-> cast, ShootingDate |-> date]
NoDisk == [excel |-> {}, projects |-> {}]

Init ==
    /\ df_cast_dates \in Schedules
    /\ cast_member_settings \in SettingsMaps
    /\ shooting_periods \in PeriodLists
    /\ max_gap \in 0..MaxGapBound
    /\ weekend_policy = TRUE
    /\ arrival_option \in ArrivalOptions
    /\ departure_option \in DepartureOptions
    /\ df_filtered = <<>>
    /\ stay_periods = <<>>
    /\ df_summary = <<>>
    /\ export_data = <<>>
    /\ calendar_data = <<>>
    /\ disk = NoDisk
    /\ current_project = "Film"
    /\ config = DefaultConfig
    /\ default_config = DefaultConfig
    /\ excel_file = "cast.xlsx"
    /\ dialog = NoDialog
    /\ workbook = NoWorkbook
    /\ pc = "ready"

Next == apply_user_logic

Spec == Init /\ [][Next]_vars

(***************************************************************************)
(* The main window: New Project and Open Project.                          *)
(***************************************************************************)
DefaultMaxGap == 2

\* the names of the schedule table, sorted(df['Cast Member'].unique())
MembersOf(df) == {df[i].CastMember : i \in 1..Len(df)}

\* load_cast_members: the members whose home location (default 'Local') is one of
\* the selected locations, all locations being selected by init_ui
Displayed(df, settings, locations) ==
    {n \in MembersOf(df) :
        (IF n \in DOMAIN settings THEN settings[n].home_location ELSE "Local")
            \in Range(locations)}

\* update_cast_member_settings as init_ui runs it: every displayed member gets the
\* entry its row shows (its own settings, or the defaults)
TableSettings(settings, shown) ==
    [n \in DOMAIN settings \cup shown |->
        IF n \in DOMAIN settings THEN settings[n] ELSE Setting(TRUE, "Local")]

\* init_ui (lines 876-1024): without a schedule only the welcome label is built;
\* with one, the cast table is filled and the controls are created anew
init_ui(df, settings, cfg) ==
    IF df = <<>>
    THEN /\ cast_member_settings' = settings
         /\ UNCHANGED <<max_gap, weekend_policy, arrival_option, departure_option>>
    ELSE /\ cast_member_settings' =
                TableSettings(settings, Displayed(df, settings, HomeLocationsOf(cfg)))
         /\ max_gap' = DefaultMaxGap
         /\ weekend_policy' = TRUE
         /\ arrival_option' = "Day Before Shooting"
         /\ departure_option' = "Same Day as Shooting"

\* lines 1048-1052: the schedule could not be loaded; the name is already stored
NewProjectFails(name) ==
    /\ current_project' = name
    /\ pc' = "failed"
    /\ UNCHANGED <<df_cast_dates, cast_member_settings, shooting_periods, max_gap,
                   weekend_policy, arrival_option, departure_option, df_filtered,
                   stay_periods, df_summary, export_data, calendar_data,
                   disk, config, default_config, excel_file, dialog, workbook>>

\* lines 1054-1071, the schedule loaded and annotated
NewProjectLoads(file, name, df) ==
    /\ current_project' = name
    /\ df_cast_dates' = df
    /\ config' = Config(HomeLocationsOf(default_config))
    /\ shooting_periods' = <<>>
    /\ calendar_data' = <<>>
    /\ export_data' = <<>>
    /\ excel_file' = file.path
    /\ init_ui(df, [n \in MembersOf(df) |-> Setting(TRUE, "Local")],
               Config(HomeLocationsOf(default_config)))
    /\ pc' = "loaded"
    /\ UNCHANGED <<df_filtered, stay_periods, df_summary, disk, default_config,
                   dialog, workbook>>

ProjectNames == {"Film"}

\* MainWindow.new_project (a cancelled file dialog or a rejected name changes
\* nothing)
new_project ==
    \E file \in disk.excel : \E name \in ProjectNames :
        IF LoadRaises(file) THEN NewProjectFails(name)
        ELSE NewProjectLoads(file, name, calculate_gaps(load_and_process_schedule(file)))

\* load_project_config: the dates of the periods, text in the file, converted
LoadedDate(v) == IF v.type = "str" THEN to_datetime(v.text) ELSE v
LoadedPeriods(periods) ==
    [i \in 1..Len(periods) |->
        [periods[i] EXCEPT !.StartDate = LoadedDate(periods[i].StartDate),
                           !.EndDate = LoadedDate(periods[i].EndDate)]]
\* json.load or a conversion raises
ConfigRaises(pf) ==
    \/ pf.kind # "ok"
    \/ \E i \in 1..Len(pf.shooting_periods) :
          \/ LoadedDate(pf.shooting_periods[i].StartDate).type = "raise"
          \/ LoadedDate(pf.shooting_periods[i].EndDate).type = "raise"

ExcelAt(path) == CHOOSE f \in disk.excel : f.path = path
Exists(path) == \E f \in disk.excel : f.path = path

\* both blocks raise in load_project_config: two error messages, nothing assigned
OpenProjectRaises ==
    /\ pc' = "failed"
    /\ UNCHANGED <<df_cast_dates, cast_member_settings, shooting_periods, max_gap,
                   weekend_policy, arrival_option, departure_option, df_filtered,
                   stay_periods, df_summary, export_data, calendar_data,
                   disk, current_project, config, default_config, excel_file,
                   dialog, workbook>>

\* lines 1093-1104: the configuration is stored, then the schedule file is missing
\* (return) or cannot be loaded (both blocks raise after storing excel_file)
OpenProjectFails(pf, path) ==
    /\ config' = pf.config
    /\ cast_member_settings' = pf.cast_member_settings
    /\ shooting_periods' = LoadedPeriods(pf.shooting_periods)
    /\ current_project' = pf.project_name
    /\ excel_file' = path
    /\ pc' = "failed"
    /\ UNCHANGED <<df_cast_dates, max_gap, weekend_policy, arrival_option,
                   departure_option, df_filtered, stay_periods, df_summary,
                   export_data, calendar_data, disk, default_config,
                   dialog, workbook>>

\* faulty variant: the results of the project open before are kept
OpenProjectKeepsResults(pf, df) ==
    /\ config' = pf.config
    /\ shooting_periods' = LoadedPeriods(pf.shooting_periods)
    /\ current_project' = pf.project_name
    /\ excel_file' = pf.excel_file
    /\ df_cast_dates' = df
    /\ init_ui(df, pf.cast_member_settings, pf.config)
    /\ pc' = "loaded"
    /\ UNCHANGED <<df_filtered, stay_periods, df_summary, disk, default_config,
                   dialog, workbook, calendar_data, export_data>>

\* lines 1093-1113 (run twice, the second block repeating the first)
OpenProjectLoads(pf, df) ==
    /\ config' = pf.config
    /\ shooting_periods' = LoadedPeriods(pf.shooting_periods)
    /\ current_project' = pf.project_name
    /\ excel_file' = pf.excel_file
    /\ df_cast_dates' = df
    /\ calendar_data' = <<>>
    /\ export_data' = <<>>
    /\ init_ui(df, pf.cast_member_settings, pf.config)
    /\ pc' = "loaded"
    /\ UNCHANGED <<df_filtered, stay_periods, df_summary, disk, default_config,
                   dialog, workbook>>

OpenProjectFile(pf) ==
    IF ConfigRaises(pf) THEN OpenProjectRaises
    ELSE IF pf.excel_file = None \/ ~Exists(pf.excel_file)
         THEN OpenProjectFails(pf, excel_file)
    ELSE IF LoadRaises(ExcelAt(pf.excel_file))
         THEN OpenProjectFails(pf, pf.excel_file)
    ELSE OpenProjectLoads(pf,
            calculate_gaps(load_and_process_schedule(ExcelAt(pf.excel_file))))

\* MainWindow.open_project (a cancelled file dialog changes nothing)
open_project == \E pf \in disk.projects : OpenProjectFile(pf)

\* the window after __init__ (lines 832-853), no project yet
NoProject ==
    /\ cast_member_settings = [n \in {} |-> Setting(TRUE, "Local")]
    /\ shooting_periods = <<>>
    /\ max_gap = DefaultMaxGap
    /\ weekend_policy = TRUE
    /\ arrival_option = "Day Before Shooting"
    /\ departure_option = "Same Day as Shooting"
    /\ df_filtered = <<>>
    /\ stay_periods = <<>>
    /\ df_summary = <<>>
    /\ export_data = <<>>
    /\ calendar_data = <<>>
    /\ current_project = None
    /\ config = EmptyConfig
    /\ default_config = DefaultConfig
    /\ excel_file = None
    /\ dialog = NoDialog
    /\ workbook = NoWorkbook

InitWindow == df_cast_dates = <<>> /\ NoProject

(***************************************************************************)
(* Loading a schedule: any file of up to MaxRows rows.                     *)
(***************************************************************************)
MaxRows == 3
FileDays == 0..MaxDay
CastCells == {<<"A">>, <<"B">>, <<"A", "B">>}
\* a row per cell and day, and a row whose CAST cell is empty
FileRows == {FileRow(c, d) : c \in CastCells, d \in FileDays} \cup {FileRow(<<>>, 0)}
RowLists == UNION {[1..n -> FileRows] : n \in 0..MaxRows}

InitGaps ==
    /\ InitWindow
    /\ \E rows \in RowLists :
          disk = [excel |-> {ExcelFile("cast.xlsx", "ok", rows)}, projects |-> {}]
    /\ pc = "ready"

NextGaps == new_project

SpecGaps == InitGaps /\ [][NextGaps]_vars

(***************************************************************************)
(* calculate_gaps on its own: any table sorted by cast member and date,    *)
(* a date possibly on two rows.                                            *)
(***************************************************************************)
FrameRows == {[CastMember |-> n, ShootingDate |-> d] : n \in CastMembers, d \in FileDays}
Frames ==
    {f \in UNION {[1..n -> FrameRows] : n \in 0..MaxRows} :
        \A i \in 1..(Len(f) - 1) :
            StrRank(f[i].CastMember) * 1000 + f[i].ShootingDate
                <= StrRank(f[i + 1].CastMember) * 1000 + f[i + 1].ShootingDate}

InitAnnotator ==
    /\ df_cast_dates \in Frames
    /\ NoProject
    /\ disk = NoDisk
    /\ pc = "loaded"

\* self.df_cast_dates = calculate_gaps(self.df_cast_dates)
annotate ==
    /\ pc = "loaded"
    /\ df_cast_dates' = calculate_gaps(df_cast_dates)
    /\ pc' = "annotated"
    /\ UNCHANGED <<cast_member_settings, shooting_periods, max_gap, weekend_policy,
                   arrival_option, departure_option, df_filtered, stay_periods,
                   df_summary, export_data, calendar_data, disk, current_project,
                   config, default_config, excel_file, dialog, workbook>>

NextAnnotator == annotate

SpecAnnotator == InitAnnotator /\ [][NextAnnotator]_vars

(***************************************************************************)
(* A session of the main window over a disk of schedule and project files. *)
(***************************************************************************)
ProjectFile(path, kind, name, excel, cfg, settings, periods) ==
    [path |-> path, kind |-> kind, project_name |-> name, excel_file |-> excel,
     config |-> cfg, cast_member_settings |-> settings, shooting_periods |-> periods]

ExcelFiles ==
    {ExcelFile("cast.xlsx", "ok",
               <<FileRow(<<"A", "B">>, 2), FileRow(<<"A">>, 1), FileRow(<<"A">>, MaxDay)>>),
     ExcelFile("second.xlsx", "ok", <<FileRow(<<"B">>, 3), FileRow(<<"B">>, 1)>>),
     ExcelFile("locked.xlsx", "unreadable", <<>>),
     ExcelFile("text.xlsx", "bad_dates", <<FileRow(<<"A">>, 1)>>)}

ProjectFiles ==
    {ProjectFile("film.json", "ok", "Film", "cast.xlsx", Config(<<"Local", "Away">>),
                 [n \in {"A", "B"} |->
                     IF n = "A" THEN Setting(TRUE, "Local") ELSE Setting(FALSE, "Away")],
                 <<Period("P1", "Away", Str(IsoText(1)), Str(IsoText(MaxDay)))>>),
     ProjectFile("pilot.json", "ok", "Pilot", "gone.xlsx", Config(<<"Local">>),
                 [n \in {"B"} |-> Setting(TRUE, "Local")],
                 <<Period("P2", "local", Str(IsoText(2)), Str(IsoText(3)))>>),
     ProjectFile("short.json", "ok", "Short", "locked.xlsx", Config(<<"Local", "Away">>),
                 [n \in {"A"} |-> Setting(FALSE, "Away")], <<>>),
     ProjectFile("series.json", "ok", "Series", "second.xlsx", Config(<<"Away">>),
                 [n \in {"B"} |-> Setting(TRUE, "Away")],
                 <<Period("P2", "local", Str(IsoText(1)), Str(<<>>)),
                   Period("P1", "Local", Str(IsoText(1)), Str(IsoText(3)))>>),
     ProjectFile("draft.json", "ok", "Draft", None, EmptyConfig,
                 [n \in {} |-> Setting(TRUE, "Local")], <<>>),
     ProjectFile("dates.json", "ok", "Dates", "cast.xlsx", Config(<<"Local", "Away">>),
                 [n \in {"A"} |-> Setting(TRUE, "Local")],
                 <<Period("P1", "Away", Str(Unparsable), Str(IsoText(2)))>>),
     ProjectFile("torn.json", "malformed", None, None, EmptyConfig,
                 [n \in {} |-> Setting(TRUE, "Local")], <<>>)}

InitProject ==
    /\ InitWindow
    /\ disk = [excel |-> ExcelFiles, projects |-> ProjectFiles]
    /\ pc = "ready"

NextProject == new_project \/ open_project \/ apply_user_logic

SpecProject == InitProject /\ [][NextProject]_vars

(***************************************************************************)
(* The Manage Home Locations dialog.  The dialog is modal: it is opened by *)
(* manage_home_locations, which goes on when the dialog is closed.         *)
(***************************************************************************)
MaxLocations == 3

\* the text of the input field, and str.strip
LocationTexts == {"", " ", "Base", " Base ", "Local", "Away"}
strip(text) == IF text = " " THEN "" ELSE IF text = " Base " THEN "Base" ELSE text

\* manage_home_locations up to dialog.exec_() (line 1301): the dialog is built
\* from the project's locations (lines 541-591); the button exists once a
\* schedule is shown
ManageOpens ==
    /\ df_cast_dates # <<>>
    /\ ~dialog.open
    /\ dialog' = [open |-> TRUE, home_locations |-> HomeLocationsOf(config),
                  list_widget |-> HomeLocationsOf(config)]
    /\ pc' = "managing"
    /\ UNCHANGED <<df_cast_dates, cast_member_settings, shooting_periods, max_gap,
                   weekend_policy, arrival_option, departure_option, df_filtered,
                   stay_periods, df_summary, export_data, calendar_data, disk,
                   current_project, config, default_config, excel_file, workbook>>

\* lines 597-600: the name is looked up in self.home_locations, the list the
\* dialog was built from, and appended to the list widget
AddedItems(d, location) ==
    IF location # "" /\ location \notin Range(d.home_locations)
    THEN Append(d.list_widget, location)
    ELSE d.list_widget

\* ManageHomeLocationsDialog.add_location
add_location(text) ==
    /\ dialog.open
    /\ Len(AddedItems(dialog, strip(text))) <= MaxLocations
    /\ dialog' = [dialog EXCEPT !.list_widget = AddedItems(dialog, strip(text))]
    /\ pc' = IF strip(text) # "" /\ strip(text) \notin Range(dialog.home_locations)
             THEN "added"
             ELSE IF strip(text) \in Range(dialog.home_locations)
                  THEN "duplicate" ELSE "invalid"
    /\ UNCHANGED <<df_cast_dates, cast_member_settings, shooting_periods, max_gap,
                   weekend_policy, arrival_option, departure_option, df_filtered,
                   stay_periods, df_summary, export_data, calendar_data, disk,
                   current_project, config, default_config, excel_file, workbook>>

\* takeItem(row): the list without its item at that row
TakeItem(items, row) == [i \in 1..(Len(items) - 1) |-> IF i < row THEN items[i] ELSE items[i + 1]]

\* ManageHomeLocationsDialog.remove_selected: row 0 stands for no selection
remove_selected(row) ==
    /\ dialog.open
    /\ dialog' = IF row = 0 THEN dialog
                 ELSE [dialog EXCEPT !.list_widget = TakeItem(@, row)]
    /\ pc' = IF row = 0 THEN "no selection" ELSE "removed"
    /\ UNCHANGED <<df_cast_dates, cast_member_settings, shooting_periods, max_gap,
                   weekend_policy, arrival_option, departure_option, df_filtered,
                   stay_periods, df_summary, export_data, calendar_data, disk,
                   current_project, config, default_config, excel_file, workbook>>

\* ManageHomeLocationsDialog.get_home_locations: the texts of the list widget
get_home_locations(d) == d.list_widget

\* faulty variant: any list is taken
LocationsValidAny(locations) == TRUE

\* line 1303
LocationsValid(locations) == "Local" \in Range(locations)

\* lines 1302-1327, the dialog accepted: a list without 'Local' is refused; else
\* it is stored, also as the default (kept in memory and in default_config.json)
\* when the box is ticked, and the cast table is filled again
ManageAccepted(new, save_as_default) ==
    /\ dialog.open
    /\ dialog' = NoDialog
    /\ IF ~LocationsValid(new)
       THEN /\ pc' = "rejected"
            /\ UNCHANGED <<config, default_config, cast_member_settings>>
       ELSE /\ config' = Config(new)
            /\ default_config' = IF save_as_default THEN Config(new) ELSE default_config
            /\ cast_member_settings' =
                   TableSettings(cast_member_settings,
                                 Displayed(df_cast_dates, cast_member_settings, new))
            /\ pc' = "managed"
    /\ UNCHANGED <<df_cast_dates, shooting_periods, max_gap, weekend_policy,
                   arrival_option, departure_option, df_filtered, stay_periods,
                   df_summary, export_data, calendar_data, disk, current_project,
                   excel_file, workbook>>

\* the dialog cancelled
ManageCancelled ==
    /\ dialog.open
    /\ dialog' = NoDialog
    /\ pc' = "cancelled"
    /\ UNCHANGED <<df_cast_dates, cast_member_settings, shooting_periods, max_gap,
                   weekend_policy, arrival_option, departure_option, df_filtered,
                   stay_periods, df_summary, export_data, calendar_data, disk,
                   current_project, config, default_config, excel_file, workbook>>

\* MainWindow.manage_home_locations
manage_home_locations ==
    \/ ManageOpens
    \/ \E save_as_default \in BOOLEAN :
          ManageAccepted(get_home_locations(dialog), save_as_default)
    \/ ManageCancelled

InitLocations ==
    /\ InitWindow
    /\ disk =
          [excel |->
              {ExcelFile("cast.xlsx", "ok",
                         <<FileRow(<<"A", "B">>, 2), FileRow(<<"A">>, 1)>>)},
           projects |->
              {ProjectFile("film.json", "ok", "Film", "cast.xlsx",
                           Config(<<"Local", "Away">>),
                           [n \in {"A", "B"} |->
                               IF n = "A" THEN Setting(TRUE, "Local")
                               ELSE Setting(FALSE, "Away")],
                           <<>>),
               ProjectFile("series.json", "ok", "Series", "cast.xlsx",
                           Config(<<"Away">>),
                           [n \in {"B"} |-> Setting(TRUE, "Away")], <<>>)}]
    /\ pc = "ready"

\* the handlers of the main window wait while the dialog is open
NextLocations ==
    \/ ~dialog.open /\ (new_project \/ open_project)
    \/ manage_home_locations
    \/ \E text \in LocationTexts : add_location(text)
    \/ \E row \in 0..Len(dialog.list_widget) : remove_selected(row)

SpecLocations == InitLocations /\ [][NextLocations]_vars

(***************************************************************************)
(* The exports (lines 1443-1710) and the controls of the pass.             *)
(***************************************************************************)
\* a number in the column Amt; a reference to a cell of the rate table has a cell
Amount(n) == [value |-> n, cell |-> ""]

\* the description of the pass (lines 397-402), a local that is not returned: the
\* place is left out when it is the home location in other letter case
PassDescription(name, home, periodName, dates) ==
    [CastMember |-> name, HomeLocation |-> home,
     Location |-> IF lower(home) = lower(IF periodName = None THEN "" ELSE periodName)
                  THEN <<>> ELSE <<periodName>>,
     Text |-> "travel tickets", Dates |-> dates]

\* f"{cast_member} ({home_location}, {location}) <text> <dates>"
Description(item, text, dates) ==
    [CastMember |-> item.CastMember, HomeLocation |-> item.HomeLocation,
     Location |-> <<IF item.PeriodName = "" THEN "Local" ELSE item.PeriodName>>,
     Text |-> text, Dates |-> dates]

\* a row of the sheet: description, amount, unit, x, rate cell, 4x
BillingRow(item, text, dates, amt, unit, rate) ==
    [Description |-> Description(item, text, dates), Amt |-> amt, Unit |-> unit,
     X |-> item.X, Rate |-> rate, FourX |-> item.FourX]

\* faulty variant: a travel day always has its per diem
TravelDayAmtAlways(date, shootingDates) == 1

\* lines 1580-1583 and 1601-1604
TravelDayAmt(date, shootingDates) == IF date \in Range(shootingDates) THEN 0 ELSE 1

\* lines 1615-1626: the row of the gap days
GapDayRows(item, maxGap) ==
    IF item.NumberOfGapDays > 0 /\ item.NumberOfGapDays <= maxGap
    THEN <<BillingRow(item, "per diems gap days", item.PeriodDates,
                      Amount(item.NumberOfGapDays), "days", "Per Diem Gap Day Rate")>>
    ELSE <<>>

\* lines 1521-1637: the rows of one export record
ItemRows(item, maxGap) ==
    <<BillingRow(item, "travel tickets", item.PeriodDates, Amount(1), "return",
                 "Ticket Rate"),
      BillingRow(item, "accommodation", item.PeriodDates,
                 Amount(item.PeriodAccommodationNights), "nights", "Accommodation Rate"),
      BillingRow(item, "per diems shooting days", item.PeriodDates,
                 Amount(item.NumberOfShootingDays), "days", "Per Diem Shooting Rate"),
      BillingRow(item, "per diem travel day arrival", <<strftime(item.PeriodStartDate)>>,
                 Amount(TravelDayAmt(item.PeriodStartDate, item.ShootingDates)), "day",
                 "Per Diem Travel Rate"),
      BillingRow(item, "per diem travel day departure", <<strftime(item.PeriodEndDate)>>,
                 Amount(TravelDayAmt(item.PeriodEndDate, item.ShootingDates)), "day",
                 "Per Diem Travel Rate")>>
    \o GapDayRows(item, maxGap)
    \o <<BillingRow(item, "travel hours", item.PeriodDates,
                    [value |-> 0, cell |-> "Travel Hours per Route"], "hours", "Hourly Travel Rate")>>

\* lines 1455-1463: the records that require travel, by 'Period Start Date'
FilteredExportData(records) ==
    SortByKey(SelectSeq(records, LAMBDA x : x.RequiresTravel),
              [x \in Range(records) |-> x.PeriodStartDate])

\* lines 1473-1640: the sheet 'Travel and Accommodation'
BudgetWorkbook(items, maxGap) ==
    [title |-> "Travel and Accommodation",
     locations |-> {items[i].PeriodName : i \in 1..Len(items)},
     rows |-> Concat([i \in 1..Len(items) |-> ItemRows(items[i], maxGap)]),
     sheets |-> <<>>]

\* an export answers with a warning, is cancelled in the file dialog, or saves
ExportEnds(outcome, saved) ==
    /\ pc' = outcome
    /\ workbook' = saved
    /\ UNCHANGED <<df_cast_dates, cast_member_settings, shooting_periods, max_gap,
                   weekend_policy, arrival_option, departure_option, df_filtered,
                   stay_periods, df_summary, export_data, calendar_data, disk,
                   current_project, config, default_config, excel_file, dialog>>

\* MainWindow.export_to_excel; the buttons exist once a schedule is shown
export_to_excel ==
    /\ df_cast_dates # <<>>
    /\ ~dialog.open
    /\ IF export_data = <<>> THEN ExportEnds("warned", workbook)
       ELSE IF FilteredExportData(export_data) = <<>> THEN ExportEnds("warned", workbook)
       ELSE \/ ExportEnds("cancelled", workbook)
            \/ ExportEnds("exported",
                          BudgetWorkbook(FilteredExportData(export_data), max_gap))

\* pd.to_datetime(x['Start'], format='%d.%m.%Y')
strptime(text) == IF text[3] = 2023 THEN text[1] - 29 ELSE text[1] + 2

\* lines 1672-1688: the events of one cast member by start date
SheetOf(events, member) ==
    SortByKey(SelectSeq(events, LAMBDA x : x.CastMember = member),
              [x \in Range(events) |-> strptime(x.Start)])

\* lines 1668-1697: a sheet for every cast member of the calendar
CalendarWorkbook(events) ==
    [title |-> "Calendar", locations |-> {}, rows |-> <<>>,
     sheets |-> [n \in {events[i].CastMember : i \in 1..Len(events)} |->
                    SheetOf(events, n)]]

\* MainWindow.export_calendar_to_excel
export_calendar_to_excel ==
    /\ df_cast_dates # <<>>
    /\ ~dialog.open
    /\ IF calendar_data = <<>> THEN ExportEnds("warned", workbook)
       ELSE \/ ExportEnds("cancelled", workbook)
            \/ ExportEnds("exported", CalendarWorkbook(calendar_data))

\* the controls of the pass set by the user: Maximum Gap Days (lines 966-969,
\* values up to MaxGapBound here), Arrival Option and Departure Option
set_controls ==
    /\ df_cast_dates # <<>>
    /\ \E gap \in 0..MaxGapBound, arrival \in ArrivalOptions,
          departure \in DepartureOptions :
          /\ max_gap' = gap
          /\ arrival_option' = arrival
          /\ departure_option' = departure
    /\ pc' = "set"
    /\ UNCHANGED <<df_cast_dates, cast_member_settings, shooting_periods,
                   weekend_policy, df_filtered, stay_periods, df_summary,
                   export_data, calendar_data, disk, current_project, config,
                   default_config, excel_file, dialog, workbook>>

InitExport ==
    /\ InitWindow
    /\ disk =
          [excel |->
              {ExcelFile("cast.xlsx", "ok",
                         <<FileRow(<<"A", "B">>, 1), FileRow(<<"A">>, 3),
                           FileRow(<<"A", "B">>, MaxDay)>>)},
           projects |->
              {ProjectFile("film.json", "ok", "Film", "cast.xlsx",
                           Config(<<"Local", "Away">>),
                           [n \in {"A", "B"} |->
                               IF n = "A" THEN Setting(TRUE, "Local")
                               ELSE Setting(TRUE, "Away")],
                           <<Period("Local", "Away", Str(IsoText(1)), Str(IsoText(3))),
                             Period("P1", "Away", Str(IsoText(4)),
                                    Str(IsoText(MaxDay)))>>)}]
    /\ pc = "ready"

NextExport ==
    \/ new_project
    \/ open_project
    \/ set_controls
    \/ apply_user_logic
    \/ export_to_excel
    \/ export_calendar_to_excel

SpecExport == InitExport /\ [][NextExport]_vars

(***************************************************************************)
(* Properties.                                                             *)
(***************************************************************************)
Returned == pc = "returned"
Entries == Range(stay_periods)
TravelEntries == {e \in Entries : e.RequiresTravel}
HomeEntries == {e \in Entries : ~e.RequiresTravel}
EntryKey(e) == <<e.CastMember, e.HomeLocation, e.PeriodName, e.RequiresTravel>>
KeyOfRow(r) == <<r.CastMember, r.HomeLocation, r.PeriodName, r.RequiresTravel>>
MinOf(S) == CHOOSE x \in S : \A y \in S : x <= y
MaxOf(S) == CHOOSE x \in S : \A y \in S : x >= y
\* the groups of the annotated rows that carry a period name, and their dates
NamedKeys == {KeyOfRow(r) : r \in {x \in Range(df_filtered) : x.PeriodName # None}}
DatesOfKey(K) == {r.ShootingDate : r \in {x \in Range(df_filtered) : KeyOfRow(x) = K}}
\* gap of a date within a set of dates: days strictly between it and its predecessor
LocalGap(D, d) == IF d = MinOf(D) THEN 0 ELSE d - MaxOf({x \in D : x < d}) - 1
\* the stay periods (positions in stay_periods) of a group that hold a date
PeriodsOf(K, d) ==
    {i \in 1..Len(stay_periods) :
        EntryKey(stay_periods[i]) = K /\ d \in Range(stay_periods[i].ShootingDates)}

\* C1: inside each group the dates are split into stay periods by the group's own
\* gaps: every date lies in exactly one stay period of its group, the period
\* counter of a date is the number of dates of the group up to it whose local gap
\* is >= max_gap (first date: gap 0), so two consecutive dates of a group share a
\* stay period exactly when the gap between them is < max_gap.
C1_SplitAtThreshold ==
    Returned =>
        \A K \in NamedKeys \cup {EntryKey(e) : e \in Entries} :
            LET D == DatesOfKey(K)
            IN /\ \A i \in 1..Len(stay_periods) :
                      EntryKey(stay_periods[i]) = K =>
                          /\ stay_periods[i].ShootingDates # <<>>
                          /\ Range(stay_periods[i].ShootingDates) \subseteq D
               /\ \A d \in D :
                      /\ Cardinality(PeriodsOf(K, d)) = 1
                      /\ \A i \in PeriodsOf(K, d) :
                             stay_periods[i].PeriodNumber =
                                 Cardinality({x \in D : x <= d /\ LocalGap(D, x) >= max_gap})
               /\ \A d \in D \ {MinOf(D)} :
                      (PeriodsOf(K, d) = PeriodsOf(K, MaxOf({x \in D : x < d})))
                          <=> (LocalGap(D, d) < max_gap)

\* a group split in two where the gap equals max_gap, the first stay period
\* holding two dates (01.01, 02.01 | 10.01 in small)
C1_Witness ==
    /\ Returned
    /\ max_gap >= 1
    /\ \E i \in 1..Len(stay_periods) : \E j \in 1..Len(stay_periods) :
          /\ EntryKey(stay_periods[i]) = EntryKey(stay_periods[j])
          /\ Len(stay_periods[i].ShootingDates) = 2
          /\ stay_periods[j].PeriodNumber = stay_periods[i].PeriodNumber + 1
          /\ SeqMin(stay_periods[j].ShootingDates)
                 - SeqMax(stay_periods[i].ShootingDates) - 1 = max_gap

\* the export record of a stay period that requires travel
ExportOf(e) == e.export[1]

\* C2: for every stay period that requires travel, arrival_date is the earliest
\* shooting date minus one day under 'Day Before Shooting' and the earliest
\* shooting date under 'Same Day as Shooting'; departure_date is the latest
\* shooting date plus one day under 'Day After Shooting' and the latest shooting
\* date under 'Same Day as Shooting'.
C2_ArrivalDeparture ==
    Returned =>
        \A e \in TravelEntries :
            LET first == MinOf(Range(e.ShootingDates))
                last == MaxOf(Range(e.ShootingDates))
            IN /\ arrival_option = "Day Before Shooting" => e.arrival_date = first - 1
               /\ arrival_option = "Same Day as Shooting" => e.arrival_date = first
               /\ departure_option = "Day After Shooting" => e.departure_date = last + 1
               /\ departure_option = "Same Day as Shooting" => e.departure_date = last
               /\ ExportOf(e).PeriodStartDate = e.arrival_date
               /\ ExportOf(e).PeriodEndDate = e.departure_date

C2_Witness ==
    /\ Returned
    /\ arrival_option = "Day Before Shooting"
    /\ departure_option = "Day After Shooting"
    /\ \E e \in TravelEntries : Len(e.ShootingDates) >= 2

\* C3: for every stay period that requires travel, under every policy combination
\* and max_gap, Period Accommodation Nights is departure_date - arrival_date in
\* days and is never negative.
C3_AccommodationNights ==
    Returned =>
        \A e \in TravelEntries :
            /\ e.period_accommodation = e.departure_date - e.arrival_date
            /\ e.period_accommodation >= 0
            /\ ExportOf(e).PeriodAccommodationNights = e.period_accommodation
            /\ ExportOf(e).PeriodAccommodationNights
                   = ExportOf(e).PeriodEndDate - ExportOf(e).PeriodStartDate

C3_Witness ==
    /\ Returned
    /\ \E e \in TravelEntries : e.period_accommodation = 0
    /\ \E e \in TravelEntries : e.period_accommodation >= 1

\* C4: the travel-day count of a stay period that requires travel is the number of
\* distinct dates among arrival_date and departure_date: 1 exactly when they are
\* equal, which is exactly when both policies are 'Same Day as Shooting' and the
\* period has a single shooting date, and then accommodation nights is 0; 2 in
\* every other case.
C4_TravelDayCount ==
    Returned =>
        \A e \in TravelEntries :
            /\ e.period_travel = Cardinality({e.arrival_date, e.departure_date})
            /\ (e.arrival_date = e.departure_date)
                   <=> (/\ arrival_option = "Same Day as Shooting"
                        /\ departure_option = "Same Day as Shooting"
                        /\ Len(e.ShootingDates) = 1)
            /\ e.arrival_date = e.departure_date =>
                   e.period_travel = 1 /\ e.period_accommodation = 0
            /\ e.arrival_date # e.departure_date => e.period_travel = 2
            /\ ExportOf(e).PeriodTravelDays = e.period_travel
            /\ ExportOf(e).NumberOfTravelDays = e.period_travel

C4_Witness ==
    /\ Returned
    /\ \E e \in TravelEntries : e.arrival_date = e.departure_date /\ e.period_travel = 1

\* C5: for every stay period that requires travel, gap_dates is exactly the set of
\* calendar dates strictly between arrival_date and departure_date that are not
\* shooting dates of the period (each once), and Number of Gap Days is its size.
C5_TravelGapDates ==
    Returned =>
        \A e \in TravelEntries :
            LET expected == {d \in (e.arrival_date + 1)..(e.departure_date - 1) :
                                d \notin Range(e.ShootingDates)}
            IN /\ Range(e.gap_dates) = expected
               /\ Len(e.gap_dates) = Cardinality(expected)
               /\ ExportOf(e).NumberOfGapDays = Cardinality(expected)

\* a stay with a gap day inside, arriving the day before and leaving the day after
C5_Witness ==
    /\ Returned
    /\ arrival_option = "Day Before Shooting"
    /\ departure_option = "Day After Shooting"
    /\ \E e \in TravelEntries : Len(e.gap_dates) >= 1

IsTravelEvent(ev) == ev.Title[1] \in {"Travel to ", "Travel back to "}
RowsOf(name, date) ==
    {r \in Range(df_filtered) : r.CastMember = name /\ r.ShootingDate = date}

\* C6: for every record of an included cast member requires_travel is false when
\* the date matched no definition (shooting location null), false when the home
\* location equals the shooting location compared case-insensitively, and true
\* otherwise; no travel event and no export record comes from a record whose
\* requires_travel is false.
C6_RequiresTravel ==
    Returned =>
        /\ \A r \in Range(df_filtered) :
              /\ r.ShootingLocation = None => ~r.RequiresTravel
              /\ (r.ShootingLocation # None
                    /\ lower(r.HomeLocation) = lower(r.ShootingLocation)) => ~r.RequiresTravel
              /\ (r.ShootingLocation # None
                    /\ lower(r.HomeLocation) # lower(r.ShootingLocation)) => r.RequiresTravel
        /\ \A e \in Entries : \A d \in Range(e.ShootingDates) :
              /\ RowsOf(e.CastMember, d) # {}
              /\ \A r \in RowsOf(e.CastMember, d) : r.RequiresTravel = e.RequiresTravel
        /\ \A e \in HomeEntries :
              /\ e.export = <<>>
              /\ \A k \in 1..Len(e.events) : ~IsTravelEvent(e.events[k])
        /\ \A k \in 1..Len(export_data) : \A d \in Range(export_data[k].ShootingDates) :
              \A r \in RowsOf(export_data[k].CastMember, d) : r.RequiresTravel
        /\ \A k \in 1..Len(calendar_data) :
              IsTravelEvent(calendar_data[k]) =>
                  \E e \in TravelEntries : calendar_data[k] \in Range(e.events)

\* a date at the home location written in another case, and a date with no period
C6_Witness ==
    /\ Returned
    /\ \E r \in Range(df_filtered) :
          /\ r.ShootingLocation # None
          /\ r.HomeLocation # r.ShootingLocation
          /\ ~r.RequiresTravel
    /\ \E r \in Range(df_filtered) : r.ShootingLocation = None /\ ~r.RequiresTravel
    /\ calendar_data # <<>>

\* the inclusive range of a definition, its textual dates read as to_datetime reads them
DateValue(v) == IF v.type = "str" THEN to_datetime(v.text) ELSE v
Contains(p, d) ==
    /\ DateValue(p.StartDate).type = "Timestamp"
    /\ DateValue(p.EndDate).type = "Timestamp"
    /\ DateValue(p.StartDate).day <= d
    /\ d <= DateValue(p.EndDate).day
Matching(d) == {i \in 1..Len(shooting_periods) : Contains(shooting_periods[i], d)}
FirstMatch(d) ==
    IF Matching(d) = {} THEN <<None, None>>
    ELSE <<shooting_periods[MinOf(Matching(d))].Name,
           shooting_periods[MinOf(Matching(d))].Location>>

\* C7: period assignment gives every shooting date the name and location of the
\* first definition in list order whose inclusive range [Start Date, End Date]
\* contains the date, also when several definitions contain it, and (null, null)
\* when none does.
C7_FirstMatchWins ==
    Returned =>
        \A r \in Range(df_filtered) :
            <<r.PeriodName, r.ShootingLocation>> = FirstMatch(r.ShootingDate)

\* a date inside two definitions of different names, on the last day of the first
\* one's range, and a date inside none
C7_Witness ==
    /\ Returned
    /\ \E r \in Range(df_filtered) :
          /\ Cardinality(Matching(r.ShootingDate)) >= 2
          /\ \E i \in Matching(r.ShootingDate) : shooting_periods[i].Name # r.PeriodName
          /\ DateValue(shooting_periods[MinOf(Matching(r.ShootingDate))].EndDate).day
                 = r.ShootingDate
    /\ \E r \in Range(df_filtered) : r.PeriodName = None

Included(name) ==
    name \in DOMAIN cast_member_settings /\ cast_member_settings[name].include

\* C8: no summary row, export record or calendar event names a cast member whose
\* include setting is false or who has no entry in cast_member_settings.
C8_ExcludedNeverNamed ==
    /\ \A k \in 1..Len(df_summary) : Included(df_summary[k].CastMember)
    /\ \A k \in 1..Len(export_data) : Included(export_data[k].CastMember)
    /\ \A k \in 1..Len(calendar_data) : Included(calendar_data[k].CastMember)
    /\ \A r \in Range(df_filtered) : Included(r.CastMember)

\* an excluded member with a shooting date away from home, next to an included one
C8_Witness ==
    /\ Returned
    /\ df_summary # <<>>
    /\ \E k \in 1..Len(df_cast_dates) :
          LET r == df_cast_dates[k]
          IN /\ r.CastMember \in DOMAIN cast_member_settings
             /\ ~cast_member_settings[r.CastMember].include
             /\ FirstMatch(r.ShootingDate)[2] # None
             /\ lower(FirstMatch(r.ShootingDate)[2])
                    # lower(cast_member_settings[r.CastMember].home_location)

\* C9: a shooting date of an included cast member that matches no definition is
\* kept with a null period and location and requires_travel false, still produces
\* a 'Shooting' calendar event, and its person still gets a summary row.
C9_UnmatchedDateKept ==
    Returned =>
        \A k \in 1..Len(df_cast_dates) :
            LET r == df_cast_dates[k]
            IN (Included(r.CastMember) /\ Matching(r.ShootingDate) = {}) =>
                  /\ \E row \in RowsOf(r.CastMember, r.ShootingDate) :
                        /\ row.PeriodName = None
                        /\ row.ShootingLocation = None
                        /\ ~row.RequiresTravel
                  /\ \E j \in 1..Len(calendar_data) :
                        /\ calendar_data[j].CastMember = r.CastMember
                        /\ calendar_data[j].Title[1] = "Shooting in "
                        /\ calendar_data[j].Start = strftime(r.ShootingDate)
                  /\ \E j \in 1..Len(df_summary) :
                        df_summary[j].CastMember = r.CastMember

EventsTitled(events, title) == {k \in 1..Len(events) : events[k].Title[1] = title}

\* C10: for every stay period that does not require travel the pass emits exactly
\* one 'Shooting in' event per shooting date and one 'Gap Day in' event per
\* non-shooting calendar date inside [earliest, latest shooting date], and nothing
\* else: no travel event, no export record, the span not widened by the policies.
C10_HomePeriodEvents ==
    Returned =>
        \A e \in HomeEntries :
            LET dates == Range(e.ShootingDates)
                inside == {d \in MinOf(dates)..MaxOf(dates) : d \notin dates}
                shoot == EventsTitled(e.events, "Shooting in ")
                gaps == EventsTitled(e.events, "Gap Day in ")
            IN /\ \A d \in dates :
                      Cardinality({k \in shoot : e.events[k].Start = strftime(d)}) = 1
               /\ \A d \in inside :
                      Cardinality({k \in gaps : e.events[k].Start = strftime(d)}) = 1
               /\ Cardinality(shoot) = Cardinality(dates)
               /\ Cardinality(gaps) = Cardinality(inside)
               /\ Len(e.events) = Cardinality(dates) + Cardinality(inside)
               /\ \A k \in 1..Len(e.events) :
                      /\ e.events[k].CastMember = e.CastMember
                      /\ e.events[k].End = e.events[k].Start
               /\ e.export = <<>>
               /\ \A k \in 1..Len(export_data) :
                      ~(/\ export_data[k].CastMember = e.CastMember
                        /\ Range(export_data[k].ShootingDates) \cap dates # {})

\* a stay at home with a gap day inside while both policies add a day
C10_Witness ==
    /\ Returned
    /\ arrival_option = "Day Before Shooting"
    /\ departure_option = "Day After Shooting"
    /\ \E e \in HomeEntries : Len(e.ShootingDates) >= 2 /\ Len(e.gap_dates) >= 1

\* C11: for every stay period that requires travel the pass emits, in this order,
\* one 'Travel to' event dated arrival_date, one 'Shooting in' event per shooting
\* date, one 'Gap Day in' event per gap date and one 'Travel back to' event dated
\* departure_date, each with Start = End and the all-day flag set, and no other
\* event for that period.
C11_TravelPeriodEvents ==
    Returned =>
        \A e \in TravelEntries :
            LET n == Len(e.ShootingDates)
                g == Len(e.gap_dates)
            IN /\ Len(e.events) = n + g + 2
               /\ e.events[1].Title[1] = "Travel to "
               /\ e.events[1].Start = strftime(e.arrival_date)
               /\ \A i \in 1..n :
                      /\ e.events[1 + i].Title[1] = "Shooting in "
                      /\ e.events[1 + i].Start = strftime(e.ShootingDates[i])
               /\ \A i \in 1..g :
                      /\ e.events[1 + n + i].Title[1] = "Gap Day in "
                      /\ e.events[1 + n + i].Start = strftime(e.gap_dates[i])
               /\ e.events[n + g + 2].Title[1] = "Travel back to "
               /\ e.events[n + g + 2].Start = strftime(e.departure_date)
               /\ \A k \in 1..Len(e.events) :
                      /\ e.events[k].End = e.events[k].Start
                      /\ e.events[k].AllDay = "TRUE"
                      /\ e.events[k].CastMember = e.CastMember
               /\ Cardinality(Range(e.ShootingDates)) = n
               /\ Cardinality(Range(e.gap_dates)) = g

\* a stay with two shooting dates and a gap day between them
C11_Witness ==
    /\ Returned
    /\ \E e \in TravelEntries : Len(e.ShootingDates) >= 2 /\ Len(e.gap_dates) >= 1

\* C12: the calendar holds one event per travel day: for every stay period that
\* requires travel the number of its 'Travel to' and 'Travel back to' events equals
\* its Period Travel Days, also when arrival_date = departure_date.
C12_OneEventPerTravelDay ==
    Returned =>
        \A e \in TravelEntries :
            Cardinality({k \in 1..Len(e.events) : IsTravelEvent(e.events[k])})
                = ExportOf(e).PeriodTravelDays

\* the export records that carry a date of a cast member
ExportsOf(name, date) ==
    {k \in 1..Len(export_data) :
        /\ export_data[k].CastMember = name
        /\ date \in Range(export_data[k].ShootingDates)}

\* C13: the pass returns exactly one export record per stay period that requires
\* travel and none for the others: every export record has Requires Travel true,
\* the Shooting Dates lists partition the records of included cast members whose
\* requires_travel is true (each in exactly one export record), and Number of
\* Shooting Days is the length of the list.
C13_ExportPartition ==
    Returned =>
        /\ Len(export_data) = Cardinality({i \in 1..Len(stay_periods) :
                                              stay_periods[i].RequiresTravel})
        /\ \A k \in 1..Len(export_data) :
              /\ export_data[k].RequiresTravel = TRUE
              /\ export_data[k].ShootingDates # <<>>
              /\ export_data[k].NumberOfShootingDays = Len(export_data[k].ShootingDates)
              /\ Cardinality(Range(export_data[k].ShootingDates))
                     = Len(export_data[k].ShootingDates)
              /\ \A d \in Range(export_data[k].ShootingDates) :
                    \E r \in RowsOf(export_data[k].CastMember, d) :
                        /\ r.RequiresTravel
                        /\ r.HomeLocation = export_data[k].HomeLocation
                        /\ r.PeriodName = export_data[k].PeriodName
        /\ \A r \in Range(df_filtered) :
              Cardinality(ExportsOf(r.CastMember, r.ShootingDate))
                  = (IF r.RequiresTravel THEN 1 ELSE 0)

\* two export records of one cast member next to a record that needs no travel
C13_Witness ==
    /\ Returned
    /\ \E j \in 1..Len(export_data) : \E k \in 1..Len(export_data) :
          /\ j # k
          /\ export_data[j].CastMember = export_data[k].CastMember
          /\ Len(export_data[j].ShootingDates) >= 2
    /\ \E r \in Range(df_filtered) : ~r.RequiresTravel

ExportKey(x) == <<x.CastMember, x.HomeLocation, x.PeriodName, x.RequiresTravel>>
RECURSIVE ExportSum(_, _, _)
ExportSum(records, K, field) ==
    IF records = <<>> THEN 0
    ELSE (IF ExportKey(Head(records)) = K THEN Head(records)[field] ELSE 0)
            + ExportSum(Tail(records), K, field)

\* C14: the pass returns exactly one summary row per non-empty group (cast member,
\* home location, period name, requires-travel), in the order of the sorted group
\* keys; its Travel Days is the sum of Period Travel Days and its Accommodation
\* Nights the sum of Period Accommodation Nights over the export records of the
\* group, and both are 0 for a group that does not require travel.
C14_SummaryTotals ==
    Returned =>
        LET keys == KeysInOrder(NamedKeys)
        IN /\ Len(df_summary) = Cardinality(NamedKeys)
           /\ \A i \in 1..Len(df_summary) :
                 /\ df_summary[i].CastMember = keys[i][1]
                 /\ df_summary[i].HomeLocation = keys[i][2]
                 /\ df_summary[i].RequiresTravel = keys[i][4]
                 /\ df_summary[i].TravelDays
                        = ExportSum(export_data, keys[i], "PeriodTravelDays")
                 /\ df_summary[i].AccommodationNights
                        = ExportSum(export_data, keys[i], "PeriodAccommodationNights")
                 /\ ~keys[i][4] =>
                        df_summary[i].TravelDays = 0 /\ df_summary[i].AccommodationNights = 0

\* a group with two stays whose nights and travel days differ, and a group at home
C14_Witness ==
    /\ Returned
    /\ \E i \in 1..Len(df_summary) :
          /\ df_summary[i].RequiresTravel
          /\ df_summary[i].TravelDays >= 3
          /\ df_summary[i].AccommodationNights # df_summary[i].TravelDays
    /\ \E i \in 1..Len(df_summary) : ~df_summary[i].RequiresTravel

Loaded == pc = "loaded"
\* the (cast member, date) records of the schedule file
FileRecords ==
    UNION {{<<r.CAST[i], r.ShootingDate>> : i \in 1..Len(r.CAST)} :
              r \in UNION {Range(f.rows) : f \in disk.excel}}
DatesOfMember(n) == {x[2] : x \in {y \in FileRecords : y[1] = n}}
\* the record before row i among the rows of the same cast member
Earlier(i) == {j \in 1..(i - 1) : df_cast_dates[j].CastMember = df_cast_dates[i].CastMember}

\* C15: calculate_gaps gives the first record of every cast member Previous
\* Shooting Date = none and Gap = 0, and every later record of that cast member
\* Gap = the number of calendar days strictly between the previous record's date
\* and its own date, the previous record being taken within the same cast member.
C15_GapDays ==
    Loaded =>
        /\ {<<df_cast_dates[i].CastMember, df_cast_dates[i].ShootingDate>> :
               i \in 1..Len(df_cast_dates)} = FileRecords
        /\ \A i \in 1..Len(df_cast_dates) :
              LET row == df_cast_dates[i]
              IN IF Earlier(i) = {}
                 THEN row.PreviousShootingDate = <<>> /\ row.Gap = 0
                 ELSE LET prev == df_cast_dates[MaxOf(Earlier(i))].ShootingDate
                      IN /\ row.PreviousShootingDate = <<prev>>
                         /\ prev = MaxOf({d \in DatesOfMember(row.CastMember) :
                                            d < row.ShootingDate})
                         /\ row.Gap = Cardinality({d \in FileDays :
                                                     prev < d /\ d < row.ShootingDate})

\* two cast members whose dates interleave, one with a gap of two days or more
C15_Witness ==
    /\ Loaded
    /\ \E i \in 1..Len(df_cast_dates) : \E j \in 1..Len(df_cast_dates) :
          /\ df_cast_dates[i].CastMember # df_cast_dates[j].CastMember
          /\ df_cast_dates[i].Gap >= 2
          /\ df_cast_dates[j].PreviousShootingDate = <<>>
          /\ df_cast_dates[i].PreviousShootingDate # <<>>
          /\ df_cast_dates[i].PreviousShootingDate[1] < df_cast_dates[j].ShootingDate
          /\ df_cast_dates[j].ShootingDate < df_cast_dates[i].ShootingDate

Annotated == pc = "annotated"

\* C16: gap days produced by calculate_gaps are never negative: for two
\* consecutive records of one cast member on the same date the gap is 0, not -1.
C16_GapNeverNegative ==
    Annotated =>
        \A i \in 1..Len(df_cast_dates) :
            /\ df_cast_dates[i].Gap >= 0
            /\ (/\ i > 1
                /\ df_cast_dates[i - 1].CastMember = df_cast_dates[i].CastMember
                /\ df_cast_dates[i - 1].ShootingDate = df_cast_dates[i].ShootingDate)
                   => df_cast_dates[i].Gap = 0

\* Saturdays and Sundays of the modelled weeks, by their calendar date
WeekendDates == {<<30, 12, 2023>>, <<31, 12, 2023>>, <<6, 1, 2024>>, <<7, 1, 2024>>}
Between(prev, date) == {d \in FileDays : prev < d /\ d < date}

\* C17: for every record with a previous shooting date, Weekends in Gap is the
\* number of calendar dates strictly between the previous and the current
\* shooting date that fall on a Saturday or a Sunday; it is 0 for a first record
\* or a gap of 0 days, and never exceeds the gap.
C17_WeekendsInGap ==
    Loaded =>
        \A i \in 1..Len(df_cast_dates) :
            LET row == df_cast_dates[i]
            IN /\ row.PreviousShootingDate = <<>> => row.WeekendsInGap = 0
               /\ row.Gap = 0 => row.WeekendsInGap = 0
               /\ row.WeekendsInGap <= row.Gap
               /\ row.PreviousShootingDate # <<>> =>
                      row.WeekendsInGap =
                          Cardinality({d \in Between(row.PreviousShootingDate[1],
                                                     row.ShootingDate) :
                                          strftime(d) \in WeekendDates})

\* a gap of exactly the Saturday and the Sunday, and a longer gap holding the same
\* two days: both count 2
C17_Witness ==
    /\ Loaded
    /\ \E i \in 1..Len(df_cast_dates) :
          df_cast_dates[i].Gap = 2 /\ df_cast_dates[i].WeekendsInGap = 2
    /\ \E i \in 1..Len(df_cast_dates) :
          df_cast_dates[i].Gap > 2 /\ df_cast_dates[i].WeekendsInGap = 2

\* the annotation of a record as its set of records alone determines it
ExpectedPrevious(n, d) ==
    IF \A x \in DatesOfMember(n) : x >= d THEN <<>>
    ELSE <<MaxOf({x \in DatesOfMember(n) : x < d})>>
ExpectedRow(n, d) ==
    LET prev == ExpectedPrevious(n, d)
        between == IF prev = <<>> THEN {} ELSE Between(prev[1], d)
    IN [CastMember |-> n, ShootingDate |-> d, PreviousShootingDate |-> prev,
        Gap |-> Cardinality(between),
        WeekendsInGap |-> Cardinality({x \in between : strftime(x) \in WeekendDates})]
\* the orderings of the rows of a file that exchange two neighbouring rows; every
\* ordering is reached by a chain of such exchanges
Exchanged(rows, i) ==
    [k \in 1..Len(rows) |->
        IF k = i THEN rows[i + 1] ELSE IF k = i + 1 THEN rows[i] ELSE rows[k]]
Reordered(rows) == {Exchanged(rows, i) : i \in 1..(Len(rows) - 1)}

\* C18: each cast member's dates are sorted ascending before the gaps are
\* computed: the (cast member, date) -> (previous date, gap, weekend days) mapping
\* of the loaded table depends only on the set of input records, so it is the same
\* for every ordering of the rows of the file.
C18_OrderIndependent ==
    Loaded =>
        /\ Range(df_cast_dates) = {ExpectedRow(x[1], x[2]) : x \in FileRecords}
        /\ Len(df_cast_dates) = Cardinality(FileRecords)
        /\ \A f \in disk.excel : \A rows \in Reordered(f.rows) :
              Range(calculate_gaps(load_and_process_schedule(
                        ExcelFile(f.path, f.kind, rows)))) = Range(df_cast_dates)

\* a file that lists a later date of a cast member before an earlier one
C18_Witness ==
    /\ Loaded
    /\ \E f \in disk.excel : \E i \in 1..Len(f.rows) : \E j \in 1..Len(f.rows) :
          /\ i < j
          /\ f.rows[i].ShootingDate > f.rows[j].ShootingDate + 1
          /\ Range(f.rows[i].CAST) \cap Range(f.rows[j].CAST) # {}

\* C19: running the pass twice in a row on the same schedule, settings, period
\* definitions and parameters returns identical summary rows, export records and
\* calendar events (same content, same order), also when the first run converted
\* textual period dates.
C19_Idempotent ==
    [][(pc = "returned" /\ pc' = "returned") =>
          /\ df_summary' = df_summary
          /\ export_data' = export_data
          /\ calendar_data' = calendar_data]_vars

\* a returned pass that converted the text dates of a definition and matched a
\* date to it
C19_Witness ==
    /\ Returned
    /\ calendar_data # <<>>
    /\ \E i \in 1..Len(shooting_periods) :
          /\ shooting_periods[i] = Period("P1", "LOCAL", Timestamp(1), Timestamp(2))
          /\ \E r \in Range(df_filtered) : r.ShootingLocation = "LOCAL"

\* C20: when New Project or Open Project fails on malformed or missing input, the
\* window's project state (current_project, config, cast_member_settings,
\* shooting_periods, df_cast_dates, excel_file, export_data, calendar_data) is
\* exactly what it was before the operation started.
C20_FailureKeepsState ==
    [][pc' = "failed" =>
          UNCHANGED <<current_project, config, cast_member_settings, shooting_periods,
                      df_cast_dates, excel_file, export_data, calendar_data>>]_vars

(***************************************************************************)
(* C21: when the Manage Home Locations dialog is accepted with a list that *)
(* does not contain 'Local', the edit is refused and the project's and the *)
(* default home locations stay as they were; hence a configuration that    *)
(* contains 'Local' still contains it after the dialog is closed.          *)
(***************************************************************************)
HasLocal(cfg) == cfg.has_home_locations /\ "Local" \in Range(cfg.home_locations)
DialogCloses == dialog.open /\ ~dialog'.open

C21_LocalStays ==
    [][DialogCloses =>
          /\ "Local" \notin Range(dialog.list_widget) =>
                /\ pc' \in {"rejected", "cancelled"}
                /\ config' = config
                /\ default_config' = default_config
          /\ HasLocal(config) => HasLocal(config')]_vars

\* an edit that removed 'Local' from a list containing it has been refused
C21_Witness ==
    /\ pc = "rejected"
    /\ HasLocal(config)
    /\ "Away" \in Range(config.home_locations)

(***************************************************************************)
(* C30: add_location adds a name exactly when it is not empty and not in   *)
(* the displayed list; so while the dialog is open no action makes a list  *)
(* without repeated names into one with a name twice, and a name that is   *)
(* not displayed (never there, or removed) is not refused as a duplicate.  *)
(***************************************************************************)
NoRepeat(items) == \A i, j \in 1..Len(items) : items[i] = items[j] => i = j

C30_AddExactlyWhenNew ==
    [][(dialog.open /\ dialog'.open) =>
          /\ NoRepeat(dialog.list_widget) => NoRepeat(dialog'.list_widget)
          /\ pc' = "duplicate" =>
                \E text \in LocationTexts : strip(text) \in Range(dialog.list_widget)
          /\ pc' = "added" =>
                dialog'.list_widget[Len(dialog'.list_widget)]
                    \notin Range(dialog.list_widget)]_vars

(***************************************************************************)
(* C22: a pass does not change what it was given: when apply_user_logic    *)
(* returns, the period definitions, the cast member settings and the       *)
(* schedule table are what they were when it was called.                   *)
(***************************************************************************)
C22_InputsNotMutated ==
    [][pc' = "returned" =>
          /\ shooting_periods' = shooting_periods
          /\ cast_member_settings' = cast_member_settings
          /\ df_cast_dates' = df_cast_dates]_vars

(***************************************************************************)
(* C24: the calendar events name the shooting location: the 'Travel to',   *)
(* 'Shooting in' and 'Gap Day in' events of a stay period carry, in the    *)
(* title and in the Location field, the Location of the period definition  *)
(* matched by the period's dates, and the 'Travel back to' event carries   *)
(* the cast member's home location.                                        *)
(***************************************************************************)
LocationsOf(e) == {FirstMatch(d)[2] : d \in Range(e.ShootingDates)}

C24_EventsNameLocation ==
    Returned =>
        \A e \in Entries :
            \A k \in 1..Len(e.events) :
                IF e.events[k].Title[1] = "Travel back to "
                THEN /\ e.events[k].Title[2] = e.HomeLocation
                     /\ e.events[k].Location = e.HomeLocation
                ELSE /\ e.events[k].Title[2] \in LocationsOf(e)
                     /\ e.events[k].Location \in LocationsOf(e)

(***************************************************************************)
(* C25: the gap dates of a stay period are the calendar dates without      *)
(* shooting strictly between its earliest and its latest shooting date,    *)
(* whatever the arrival and departure policies and whether or not travel   *)
(* is required; so shooting days + gap days = (latest - earliest) + 1.     *)
(***************************************************************************)
InnerDates(e) ==
    {d \in SeqMin(e.ShootingDates)..SeqMax(e.ShootingDates) :
        d \notin Range(e.ShootingDates)}

C25_GapDatesInsideSpan ==
    Returned =>
        \A e \in Entries :
            /\ Range(e.gap_dates) = InnerDates(e)
            /\ Len(e.gap_dates) = Cardinality(InnerDates(e))
            /\ Len(e.ShootingDates) + Len(e.gap_dates)
                   = SeqMax(e.ShootingDates) - SeqMin(e.ShootingDates) + 1
            /\ \A k \in 1..Len(e.export) :
                   e.export[k].NumberOfShootingDays + e.export[k].NumberOfGapDays
                       = SeqMax(e.ShootingDates) - SeqMin(e.ShootingDates) + 1

\* both policies add a day to the stay; a stay with travel and one without, each
\* with a gap day inside
C25_Witness ==
    /\ Returned
    /\ arrival_option = "Day Before Shooting"
    /\ departure_option = "Day After Shooting"
    /\ \E e \in TravelEntries : Len(e.gap_dates) >= 1 /\ e.export # <<>>
    /\ \E e \in HomeEntries : Len(e.gap_dates) >= 1

(***************************************************************************)
(* C28: stays of one cast member within one group do not overlap: for two  *)
(* consecutive stay periods of a group that requires travel, the           *)
(* departure_date of the earlier one is not later than the arrival_date of *)
(* the later one, for every threshold and every policy combination.        *)
(***************************************************************************)
Consecutive(e1, e2) ==
    /\ EntryKey(e1) = EntryKey(e2)
    /\ e1.PeriodNumber < e2.PeriodNumber
    /\ ~\E e3 \in TravelEntries :
          /\ EntryKey(e3) = EntryKey(e1)
          /\ e1.PeriodNumber < e3.PeriodNumber
          /\ e3.PeriodNumber < e2.PeriodNumber
Disjoint(e1, e2) == e1.departure_date <= e2.arrival_date

C28_StaysNeverOverlap ==
    Returned =>
        \A e1, e2 \in TravelEntries : Consecutive(e1, e2) => Disjoint(e1, e2)

\* C28 as it holds: the same for every threshold of 1 or more, and for a
\* threshold of 0 unless the cast arrives the day before and leaves the day after
\* shooting (a threshold of 0 makes every shooting date a stay of its own, and the
\* stays of two days in a row then share a night).
C28_StaysNeverOverlapAmended ==
    (/\ Returned
     /\ \/ max_gap >= 1
        \/ arrival_option # "Day Before Shooting"
        \/ departure_option # "Day After Shooting") =>
        \A e1, e2 \in TravelEntries : Consecutive(e1, e2) => Disjoint(e1, e2)

\* two stays split by one gap day at a threshold of 1, the first left on the day
\* the second is reached
C28_Witness ==
    /\ Returned
    /\ max_gap = 1
    /\ arrival_option = "Day Before Shooting"
    /\ departure_option = "Day After Shooting"
    /\ \E e1, e2 \in TravelEntries :
          Consecutive(e1, e2) /\ e1.departure_date = e2.arrival_date

(***************************************************************************)
(* C23: a description never names the same place twice: when the place of *)
(* the stay period is the cast member's home location, letter case aside,  *)
(* the description holds it once, '<name> (<home>) ...', in the pass and    *)
(* in every row written by export_to_excel.                                *)
(***************************************************************************)
NamedOnce(d) == \A k \in 1..Len(d.Location) : lower(d.Location[k]) # lower(d.HomeLocation)

C23_PlaceNamedOnce ==
    /\ \A i \in 1..Len(export_data) :
          NamedOnce(PassDescription(export_data[i].CastMember, export_data[i].HomeLocation,
                                    export_data[i].PeriodName, export_data[i].PeriodDates))
    /\ \A i \in 1..Len(workbook.rows) : NamedOnce(workbook.rows[i].Description)

(***************************************************************************)
(* C26: every day of a stay, from arrival_date to departure_date, falls in *)
(* one per-diem category: for every export record, shooting days + gap     *)
(* days + arrival per diem + departure per diem = accommodation nights + 1,*)
(* the arrival (departure) per diem written by export_to_excel being 1     *)
(* when the arrival (departure) date is not a shooting date of the period  *)
(* and 0 when it is.                                                       *)
(***************************************************************************)
BudgetSaved == pc = "exported" /\ workbook.title = "Travel and Accommodation"

\* the rows written for a record with the given text and date
RowsFor(x, text, date) ==
    {i \in 1..Len(workbook.rows) :
        /\ workbook.rows[i].Description.Text = text
        /\ workbook.rows[i].Description.CastMember = x.CastMember
        /\ workbook.rows[i].Description.Location = <<x.PeriodName>>
        /\ workbook.rows[i].Description.Dates = <<strftime(date)>>}

PerDiemOf(x, text, date) == workbook.rows[MinOf(RowsFor(x, text, date))].Amt.value

C26_DaysOfStayPartition ==
    BudgetSaved =>
        \A k \in 1..Len(export_data) :
            LET x == export_data[k]
                arrival == PerDiemOf(x, "per diem travel day arrival", x.PeriodStartDate)
                departure == PerDiemOf(x, "per diem travel day departure", x.PeriodEndDate)
            IN /\ Cardinality(RowsFor(x, "per diem travel day arrival",
                                      x.PeriodStartDate)) = 1
               /\ Cardinality(RowsFor(x, "per diem travel day departure",
                                      x.PeriodEndDate)) = 1
               /\ arrival = IF x.PeriodStartDate \in Range(x.ShootingDates) THEN 0 ELSE 1
               /\ departure = IF x.PeriodEndDate \in Range(x.ShootingDates) THEN 0 ELSE 1
               /\ x.NumberOfShootingDays + x.NumberOfGapDays + arrival + departure
                      = x.PeriodAccommodationNights + 1

\* a saved stay with a gap day, reached the day before shooting and left on the
\* last shooting day
C26_Witness ==
    /\ BudgetSaved
    /\ \E k \in 1..Len(export_data) :
          /\ export_data[k].NumberOfGapDays >= 1
          /\ export_data[k].PeriodStartDate \notin Range(export_data[k].ShootingDates)
          /\ export_data[k].PeriodEndDate \in Range(export_data[k].ShootingDates)

(***************************************************************************)
(* C27: for every exported stay period with at least one gap day the saved *)
(* sheet has a gap-day per-diem row whose amount is the period's 'Number   *)
(* of Gap Days', whatever that number and whatever the Maximum Gap Days    *)
(* control shows when the export runs.                                     *)
(***************************************************************************)
C27_GapDayRowWritten ==
    BudgetSaved =>
        \A k \in 1..Len(export_data) :
            export_data[k].NumberOfGapDays >= 1 =>
                \E i \in 1..Len(workbook.rows) :
                    /\ workbook.rows[i].Description.Text = "per diems gap days"
                    /\ workbook.rows[i].Description.CastMember = export_data[k].CastMember
                    /\ workbook.rows[i].Description.Location = <<export_data[k].PeriodName>>
                    /\ workbook.rows[i].Description.Dates = export_data[k].PeriodDates
                    /\ workbook.rows[i].Amt.value = export_data[k].NumberOfGapDays

(***************************************************************************)
(* C29: results do not outlive their project: a New Project or Open        *)
(* Project that loads a schedule leaves export_data and calendar_data      *)
(* empty, they are filled again only by a pass that returns, and while     *)
(* they are empty the exports end with a warning and save no workbook.     *)
(***************************************************************************)
C29_ResultsNeverOutliveProject ==
    [][/\ pc' = "loaded" => export_data' = <<>> /\ calendar_data' = <<>>
       /\ (export_data = <<>> /\ export_data' # <<>>) => pc' = "returned"
       /\ (calendar_data = <<>> /\ calendar_data' # <<>>) => pc' = "returned"
       /\ (export_data = <<>> /\ calendar_data = <<>>) =>
             /\ workbook' = workbook
             /\ pc' # "exported"
       /\ (pc' = "exported" /\ workbook'.title = "Travel and Accommodation") =>
             export_data # <<>>
       /\ (pc' = "exported" /\ workbook'.title = "Calendar") =>
             calendar_data # <<>>]_vars

\* a project was exported, a new project was made from a schedule, and an export
\* of the new project was refused
C29_Witness ==
    /\ pc = "warned"
    /\ workbook.title = "Travel and Accommodation"
    /\ df_cast_dates # <<>>
    /\ shooting_periods = <<>>
    /\ export_data = <<>>
    /\ calendar_data = <<>>

====
